---- MODULE Spec2Model ----
(***************************************************************************)
(* KeyValueFileSystem (src/src/index.ts): a path namespace with glob       *)
(* queries layered on a flat asynchronous key-value store.                 *)
(*                                                                         *)
(* Strings are sequences of one-character strings, so that indexing,       *)
(* slicing, escaping and regular-expression matching are computed          *)
(* character by character as the code computes them.                       *)
(***************************************************************************)
EXTENDS Integers, Sequences, FiniteSets, TLC

VARIABLES prefix, store, before, last, written

vars == <<prefix, store, before, last, written>>

(***************************************************************************)
(* Bounds of the model.                                                    *)
(***************************************************************************)
\* longest path / spec handed to an operation
MaxLen == 2
\* most keys of the instance's namespace held by the store at once
MaxKeys == 2
\* longest list handed to writeMulti / rmMulti
MaxEntries == 2

(***************************************************************************)
(* Strings.                                                                *)
(***************************************************************************)
RECURSIVE StrUpTo(_, _)
StrUpTo(S, n) ==
  IF n = 0 THEN {<<>>}
  ELSE LET shorter == StrUpTo(S, n - 1)
       IN  shorter \cup {Append(s, c) : s \in shorter, c \in S}

RECURSIVE ListsUpTo(_, _)
ListsUpTo(S, n) ==
  IF n = 0 THEN {<<>>}
  ELSE LET shorter == ListsUpTo(S, n - 1)
       IN  shorter \cup {Append(l, e) : l \in shorter, e \in S}

\* s.startsWith(p)
startsWith(s, p) == Len(s) >= Len(p) /\ SubSeq(s, 1, Len(p)) = p

\* s.endsWith(p)
endsWith(s, p) == Len(s) >= Len(p) /\ SubSeq(s, Len(s) - Len(p) + 1, Len(s)) = p

\* s.slice(n) for n >= 0
slice(s, n) == IF n >= Len(s) THEN <<>> ELSE SubSeq(s, n + 1, Len(s))

\* the range of a sequence
Range(s) == {s[i] : i \in 1..Len(s)}

\* the elements of a finite set listed once each, in a fixed order
RECURSIVE Listed(_)
Listed(S) ==
  IF S = {} THEN <<>>
  ELSE LET e == CHOOSE x \in S : TRUE IN <<e>> \o Listed(S \ {e})

\* the value `undefined` of an optional string argument
Undefined == <<"undefined">>

\* the text JavaScript appends for `str += undefined`
UndefinedText == <<"u", "n", "d", "e", "f", "i", "n", "e", "d">>

\* JavaScript truthiness of an optional string: undefined and "" are falsy
Truthy(s) == s # Undefined /\ s # <<>>

(***************************************************************************)
(* The codec: JSON.stringify and JSON.parse on JavaScript values.          *)
(* A value is a tagged record; a text is a sequence of characters.         *)
(***************************************************************************)
JsNull == [t |-> "null", v |-> 0]
JsNaN == [t |-> "nan", v |-> 0]
JsNum(n) == [t |-> "num", v |-> n]
JsStr(s) == [t |-> "str", v |-> s]
JsArr(xs) == [t |-> "arr", v |-> xs]
JsObj(members) == [t |-> "obj", v |-> members]
JsMember(k, x) == [k |-> k, x |-> x]

NullText == <<"n", "u", "l", "l">>
DigitChars == <<"0", "1", "2", "3", "4", "5", "6", "7", "8", "9">>
DigitOf(c) == CHOOSE d \in 0..9 : DigitChars[d + 1] = c
IsDigit(c) == \E d \in 0..9 : DigitChars[d + 1] = c

RECURSIVE NumberText(_)
NumberText(n) ==
  IF n < 10 THEN <<DigitChars[n + 1]>>
  ELSE Append(NumberText(n \div 10), DigitChars[(n % 10) + 1])

RECURSIVE JoinWith(_, _)
JoinWith(parts, sep) ==
  IF Len(parts) = 0 THEN <<>>
  ELSE IF Len(parts) = 1 THEN parts[1]
  ELSE parts[1] \o sep \o JoinWith(Tail(parts), sep)

\* JSON.stringify(value): NaN is written as null, also inside arrays and objects
RECURSIVE JSONstringify(_)
JSONstringify(x) ==
  CASE x.t = "null" -> NullText
    [] x.t = "nan" -> NullText
    [] x.t = "num" -> NumberText(x.v)
    [] x.t = "str" -> <<"\"">> \o x.v \o <<"\"">>
    [] x.t = "arr" ->
         <<"[">> \o JoinWith([i \in 1..Len(x.v) |-> JSONstringify(x.v[i])], <<",">>)
                 \o <<"]">>
    [] x.t = "obj" ->
         <<"{">> \o JoinWith([i \in 1..Len(x.v) |->
                                <<"\"">> \o x.v[i].k \o <<"\"", ":">>
                                         \o JSONstringify(x.v[i].x)], <<",">>)
                 \o <<"}">>

\* the result of parsing a prefix of a text: the value and the unread rest
Parsed(x, rest) == [ok |-> TRUE, val |-> x, rest |-> rest]
ParseError == [ok |-> FALSE, val |-> JsNull, rest |-> <<>>]

RECURSIVE ParseDigits(_, _)
ParseDigits(s, n) ==
  IF s # <<>> /\ IsDigit(Head(s)) THEN ParseDigits(Tail(s), 10 * n + DigitOf(Head(s)))
  ELSE Parsed(JsNum(n), s)

RECURSIVE ParseChars(_, _)
ParseChars(s, acc) ==
  IF s = <<>> THEN ParseError
  ELSE IF Head(s) = "\"" THEN Parsed(JsStr(acc), Tail(s))
  ELSE ParseChars(Tail(s), Append(acc, Head(s)))

RECURSIVE ParseValue(_), ParseElements(_, _), ParseMembers(_, _)
ParseValue(s) ==
  IF s = <<>> THEN ParseError
  ELSE CASE Head(s) = "n" ->
              IF startsWith(s, NullText) THEN Parsed(JsNull, slice(s, 4)) ELSE ParseError
         [] IsDigit(Head(s)) -> ParseDigits(s, 0)
         [] Head(s) = "\"" -> ParseChars(Tail(s), <<>>)
         [] Head(s) = "[" ->
              IF Len(s) >= 2 /\ s[2] = "]" THEN Parsed(JsArr(<<>>), slice(s, 2))
              ELSE ParseElements(Tail(s), <<>>)
         [] Head(s) = "{" ->
              IF Len(s) >= 2 /\ s[2] = "}" THEN Parsed(JsObj(<<>>), slice(s, 2))
              ELSE ParseMembers(Tail(s), <<>>)
         [] OTHER -> ParseError

ParseElements(s, acc) ==
  LET e == ParseValue(s)
  IN  IF ~e.ok \/ e.rest = <<>> THEN ParseError
      ELSE IF Head(e.rest) = "," THEN ParseElements(Tail(e.rest), Append(acc, e.val))
      ELSE IF Head(e.rest) = "]" THEN Parsed(JsArr(Append(acc, e.val)), Tail(e.rest))
      ELSE ParseError

ParseMembers(s, acc) ==
  IF s = <<>> \/ Head(s) # "\"" THEN ParseError
  ELSE LET k == ParseChars(Tail(s), <<>>)
       IN  IF ~k.ok \/ k.rest = <<>> \/ Head(k.rest) # ":" THEN ParseError
           ELSE LET e == ParseValue(Tail(k.rest))
                    m == Append(acc, JsMember(k.val.v, e.val))
                IN  IF ~e.ok \/ e.rest = <<>> THEN ParseError
                    ELSE IF Head(e.rest) = "," THEN ParseMembers(Tail(e.rest), m)
                    ELSE IF Head(e.rest) = "}" THEN Parsed(JsObj(m), Tail(e.rest))
                    ELSE ParseError

\* JSON.parse(text): a SyntaxError unless the whole text is one value
JSONparse(text) ==
  LET r == ParseValue(text)
  IN  IF r.ok /\ r.rest = <<>> THEN r ELSE ParseError

(***************************************************************************)
(* The KeyValueStore collaborator.  A store is a function from the keys it *)
(* holds to their texts; getItem of a missing key gives NoItem (null).     *)
(***************************************************************************)
NoItem == <<"null">>

getItem(st, key) == IF key \in DOMAIN st THEN st[key] ELSE NoItem

setItem(st, key, text) ==
  [k \in DOMAIN st \cup {key} |-> IF k = key THEN text ELSE st[k]]

removeItem(st, key) == [k \in DOMAIN st \ {key} |-> st[k]]

\* multiGet(keys): one [key, text or null] pair per key, in the order asked
multiGet(st, keys) == [i \in 1..Len(keys) |-> <<keys[i], getItem(st, keys[i])>>]

\* multiSet(keyValuePairs): the pairs are set in order, a later pair winning
RECURSIVE multiSet(_, _)
multiSet(st, pairs) ==
  IF pairs = <<>> THEN st
  ELSE multiSet(setItem(st, pairs[1][1], pairs[1][2]), Tail(pairs))

multiRemove(st, keys) == [k \in DOMAIN st \ Range(keys) |-> st[k]]

\* getAllKeys(): every key of the store, each once, in the store's own order
getAllKeys(st) == Listed(DOMAIN st)

\* a store call as the collaborator sees it: the method and its argument
Call(method, arg) == [m |-> method, a |-> arg]

(***************************************************************************)
(* regexFromSpec: the scan of the spec into literal segments, the escaping *)
(* of each segment, and the source text of the regular expression.         *)
(***************************************************************************)
RegexSpecialChars ==
  {".", "*", "+", "-", "?", "^", "$", "{", "}", "(", ")", "|", "[", "]", "\\"}

\* the while loop: i is the 1-based index of the character being read
RECURSIVE ScanSpec(_, _, _, _)
ScanSpec(spec, i, curSegment, segments) ==
  IF i > Len(spec)
  THEN IF Len(curSegment) > 0 THEN Append(segments, curSegment) ELSE segments
  ELSE CASE spec[i] = "\\" ->
              ScanSpec(spec, i + 2,
                       curSegment \o (IF i + 1 <= Len(spec) THEN <<spec[i + 1]>>
                                      ELSE UndefinedText),
                       segments)
         [] spec[i] = "*" ->
              IF Len(curSegment) > 0
              THEN ScanSpec(spec, i + 1, <<>>, Append(segments, curSegment))
              ELSE ScanSpec(spec, i + 1, curSegment, segments)
         [] OTHER -> ScanSpec(spec, i + 1, Append(curSegment, spec[i]), segments)

\* seg.replace(/[.*+\-?^${}()|[\]\\]/g, "\\$&")
RECURSIVE EscapeSegment(_)
EscapeSegment(seg) ==
  IF seg = <<>> THEN <<>>
  ELSE (IF Head(seg) \in RegexSpecialChars THEN <<"\\", Head(seg)>> ELSE <<Head(seg)>>)
       \o EscapeSegment(Tail(seg))

\* the source text handed to new RegExp(...)
regexFromSpec(pre, spec) ==
  LET segments == ScanSpec(spec, 1, <<>>, <<>>)
      segRegex == JoinWith([i \in 1..Len(segments) |-> EscapeSegment(segments[i])],
                           <<".", "*">>)
  IN  <<"^">> \o pre \o segRegex
        \o (IF Len(spec) > 0 /\ spec[Len(spec)] = "*" THEN <<".", "*">> ELSE <<>>)
        \o <<"$">>

(***************************************************************************)
(* The RegExp engine on the sources regexFromSpec builds: a leading ^, a   *)
(* trailing $, and between them atoms (a character, an escaped character   *)
(* or the dot), each optionally followed by a star.                        *)
(***************************************************************************)
Atom(kind, c) == [k |-> kind, c |-> c, star |-> FALSE]
RegexSyntaxError == <<[k |-> "error", c |-> "", star |-> FALSE]>>

RECURSIVE RegexAtoms(_, _, _)
RegexAtoms(src, i, atoms) ==
  IF i > Len(src) THEN atoms
  ELSE CASE src[i] = "\\" ->
              IF i + 1 > Len(src) THEN RegexSyntaxError
              ELSE RegexAtoms(src, i + 2, Append(atoms, Atom("lit", src[i + 1])))
         [] src[i] = "." -> RegexAtoms(src, i + 1, Append(atoms, Atom("any", "")))
         [] src[i] = "*" ->
              IF atoms = <<>> \/ atoms[Len(atoms)].star \/ atoms[Len(atoms)].k = "bol"
              THEN RegexSyntaxError
              ELSE RegexAtoms(src, i + 1,
                              [atoms EXCEPT ![Len(atoms)].star = TRUE])
         [] src[i] = "^" -> RegexAtoms(src, i + 1, Append(atoms, Atom("bol", "")))
         [] src[i] = "$" -> RegexAtoms(src, i + 1, Append(atoms, Atom("eol", "")))
         [] OTHER -> RegexAtoms(src, i + 1, Append(atoms, Atom("lit", src[i])))

\* whether atoms[i..] match s from position j on, ending anywhere
RECURSIVE MatchAt(_, _, _, _)
MatchAt(atoms, i, s, j) ==
  IF i > Len(atoms) THEN TRUE
  ELSE LET a == atoms[i]
           takes == j <= Len(s) /\ (a.k = "any" \/ (a.k = "lit" /\ a.c = s[j]))
       IN  CASE a.k = "bol" -> j = 1 /\ MatchAt(atoms, i + 1, s, j)
             [] a.k = "eol" -> j = Len(s) + 1 /\ MatchAt(atoms, i + 1, s, j)
             [] a.star -> \/ MatchAt(atoms, i + 1, s, j)
                          \/ (takes /\ MatchAt(atoms, i, s, j + 1))
             [] OTHER -> takes /\ MatchAt(atoms, i + 1, s, j + 1)

\* regex.test(key): a match starting at any position of the key
RegExpTest(src, key) ==
  LET atoms == RegexAtoms(src, 1, <<>>)
  IN  \E j \in 1..(Len(key) + 1) : MatchAt(atoms, 1, key, j)

\* whether new RegExp(src) throws a SyntaxError
RegExpThrows(src) == RegexAtoms(src, 1, <<>>) = RegexSyntaxError

(***************************************************************************)
(* KeyValueFileSystem.  Each method is an operator from the instance's     *)
(* prefix, the store and the arguments to an outcome: the store afterwards,*)
(* the value returned, whether it threw, and the store calls it made.      *)
(***************************************************************************)
Outcome(st, ret, calls) == [st |-> st, ret |-> ret, err |-> FALSE, calls |-> calls]
Throws(st, calls) == [st |-> st, ret |-> <<>>, err |-> TRUE, calls |-> calls]

\* validatePath(path) throws
validatePath(path) == Len(path) = 0

\* the key of a path: this.prefix + path
KeyOf(pre, path) == pre \o path

lsOutcome(pre, st, spec) ==
  LET keys == getAllKeys(st)
      normalizedSpec == IF Truthy(spec) THEN spec ELSE <<"*">>
      calls == <<Call("getAllKeys", <<>>)>>
      regex == regexFromSpec(pre, normalizedSpec)
      matching == SelectSeq(keys, LAMBDA key : RegExpTest(regex, key))
  IN  IF RegExpThrows(regex) THEN Throws(st, calls)
      ELSE Outcome(st, [i \in 1..Len(matching) |-> slice(matching[i], Len(pre))], calls)

readOutcome(pre, st, path) ==
  IF validatePath(path) THEN Throws(st, <<>>)
  ELSE LET key == KeyOf(pre, path)
           calls == <<Call("getItem", key)>>
           item == getItem(st, key)
       IN  IF item # NoItem
           THEN IF JSONparse(item).ok THEN Outcome(st, JSONparse(item).val, calls)
                ELSE Throws(st, calls)
           ELSE Outcome(st, JsNull, calls)

PathValue(path, value) == [path |-> path, value |-> value]

readMultiOutcome(pre, st, spec) ==
  LET listed == lsOutcome(pre, st, spec)
      asked == [i \in 1..Len(listed.ret) |-> KeyOf(pre, listed.ret[i])]
      values == multiGet(st, asked)
      calls == listed.calls \o <<Call("multiGet", asked)>>
      hasText(i) == values[i][2] # NoItem /\ values[i][2] # <<>>
  IN  IF listed.err THEN listed
      ELSE IF \E i \in 1..Len(values) : hasText(i) /\ ~JSONparse(values[i][2]).ok
      THEN Throws(st, calls)
      ELSE Outcome(st,
                   [i \in 1..Len(values) |->
                      PathValue(slice(values[i][1], Len(pre)),
                                IF hasText(i) THEN JSONparse(values[i][2]).val
                                ELSE JsNull)],
                   calls)

\* write as it would be had the prefix been left off the key
writeOutcomeUnprefixed(pre, st, path, value) ==
  IF validatePath(path) THEN Throws(st, <<>>)
  ELSE LET text == JSONstringify(value)
       IN  Outcome(setItem(st, path, text), <<>>, <<Call("setItem", <<path, text>>)>>)

writeOutcome(pre, st, path, value) ==
  IF validatePath(path) THEN Throws(st, <<>>)
  ELSE LET key == KeyOf(pre, path)
           text == JSONstringify(value)
       IN  Outcome(setItem(st, key, text), <<>>, <<Call("setItem", <<key, text>>)>>)

\* basePath ? `${basePath}${subPath}` : subPath
FullPath(basePath, subPath) == IF Truthy(basePath) THEN basePath \o subPath ELSE subPath

\* writeMulti as it would be had it written the valid entries before throwing
writeMultiOutcomeLate(pre, st, basePath, values) ==
  IF Len(values) = 0 THEN Outcome(st, <<>>, <<>>)
  ELSE LET fullPath(i) == FullPath(basePath, values[i].path)
           valid == SelectSeq(values, LAMBDA e : ~validatePath(FullPath(basePath, e.path)))
           keyValues == [i \in 1..Len(valid) |->
                           <<KeyOf(pre, FullPath(basePath, valid[i].path)),
                             JSONstringify(valid[i].value)>>]
           calls == <<Call("multiSet", keyValues)>>
       IN  IF \E i \in 1..Len(values) : validatePath(fullPath(i))
           THEN Throws(multiSet(st, keyValues), calls)
           ELSE Outcome(multiSet(st, keyValues), <<>>, calls)

writeMultiOutcome(pre, st, basePath, values) ==
  IF Len(values) = 0 THEN Outcome(st, <<>>, <<>>)
  ELSE LET fullPath(i) == FullPath(basePath, values[i].path)
           keyValues == [i \in 1..Len(values) |->
                           <<KeyOf(pre, fullPath(i)), JSONstringify(values[i].value)>>]
       IN  IF \E i \in 1..Len(values) : validatePath(fullPath(i)) THEN Throws(st, <<>>)
           ELSE Outcome(multiSet(st, keyValues), <<>>, <<Call("multiSet", keyValues)>>)

rmOutcome(pre, st, path) ==
  IF validatePath(path) THEN Throws(st, <<>>)
  ELSE LET key == KeyOf(pre, path)
       IN  Outcome(removeItem(st, key), <<>>, <<Call("removeItem", key)>>)

\* rmAllForce as it would be had it not filtered the keys by the prefix
rmAllForceOutcomeUnfiltered(pre, st) ==
  LET keys == getAllKeys(st)
  IN  Outcome(multiRemove(st, keys), <<>>,
              <<Call("getAllKeys", <<>>), Call("multiRemove", keys)>>)

rmAllForceOutcome(pre, st) ==
  LET keys == getAllKeys(st)
      ourKeys == SelectSeq(keys, LAMBDA key : startsWith(key, pre))
  IN  Outcome(multiRemove(st, ourKeys), <<>>,
              <<Call("getAllKeys", <<>>), Call("multiRemove", ourKeys)>>)

\* rmMulti as it would be had it removed the first path only
rmMultiOutcomeFirst(pre, st, paths) ==
  IF Len(paths) = 0 THEN Outcome(st, <<>>, <<>>)
  ELSE LET key == KeyOf(pre, paths[1])
       IN  Outcome(removeItem(st, key), <<>>, <<Call("removeItem", key)>>)

\* rmMulti is called by the tests but is no method of the class in src/src/index.ts
rmMultiOutcome(pre, st, paths) ==
  IF Len(paths) = 0 THEN Outcome(st, <<>>, <<>>)
  ELSE LET keys == [i \in 1..Len(paths) |-> KeyOf(pre, paths[i])]
       IN  Outcome(multiRemove(st, keys), <<>>, <<Call("multiRemove", keys)>>)

(***************************************************************************)
(* The inputs of the model.                                                *)
(***************************************************************************)
PathChars == {"/", "*"}
SpecChars == PathChars \cup {"\\"}

\* paths handed to read and write (the empty path included)
Paths == {<<>>, <<"/">>, <<"*">>, <<"/", "/">>, <<"/", "*">>, <<"*", "/">>}
\* specs handed to ls, readMulti and rm (absent and empty included)
Specs == StrUpTo(SpecChars, MaxLen) \cup {Undefined}

\* the constructor's keyNamespacePrefix: one plain, one with a regex metacharacter
Prefixes == {<<"k">>, <<".">>}

\* keys and texts other parts of the application keep in the same store
OtherKeys == {<<"f">>, <<"f", "/">>}
SecretText == <<"s">>

Hello == JsObj(<<JsMember(<<"h">>, JsStr(<<"w">>))>>)
Values == {JsNull, JsNum(1), JsNaN, Hello}

BasePaths == {Undefined, <<>>, <<"/">>, <<"*", "/">>}
EntryChoices ==
  {PathValue(<<>>, JsNum(1)), PathValue(<<"/">>, JsNum(1)), PathValue(<<"/">>, Hello)}
Entries == ListsUpTo(EntryChoices, MaxEntries)
PathLists == ListsUpTo({<<"/">>, <<"*">>, <<"/", "/">>}, MaxEntries)

OurKeys(pre, st) == {key \in DOMAIN st : startsWith(key, pre)}

(***************************************************************************)
(* The state machine.  A caller awaits one method call at a time: the call *)
(* runs against the store, and the caller resumes with its outcome.        *)
(* before is the store as the call found it, last the call and its         *)
(* outcome; both are cleared when the caller resumes.  written records,    *)
(* for each path, the value most recently handed to write or writeMulti    *)
(* for it and not removed since.                                           *)
(***************************************************************************)
Done(op, arg, val, list, o) ==
  [op |-> op, arg |-> arg, val |-> val, list |-> list,
   ret |-> o.ret, err |-> o.err, calls |-> o.calls]

Idle == Done("idle", <<>>, JsNull, <<>>, Outcome(<<>>, <<>>, <<>>))

Step(op, arg, val, list, o, w) ==
  /\ Cardinality(OurKeys(prefix, o.st)) <= MaxKeys
  /\ store' = o.st
  /\ before' = store
  /\ last' = Done(op, arg, val, list, o)
  /\ written' = IF o.err THEN written ELSE w
  /\ UNCHANGED prefix

Put(w, path, value) == [p \in DOMAIN w \cup {path} |-> IF p = path THEN value ELSE w[p]]
Drop(w, paths) == [p \in DOMAIN w \ paths |-> w[p]]

RECURSIVE PutAll(_, _, _)
PutAll(w, basePath, values) ==
  IF values = <<>> THEN w
  ELSE PutAll(Put(w, FullPath(basePath, values[1].path), values[1].value),
              basePath, Tail(values))

Init ==
  /\ prefix \in Prefixes
  /\ store \in {[key \in K |-> SecretText] : K \in {{}, OtherKeys}}
  /\ before = store
  /\ last = Idle
  /\ written = <<>>

ls(spec) ==
  /\ last = Idle
  /\ Step("ls", spec, JsNull, <<>>, lsOutcome(prefix, store, spec), written)

read(path) ==
  /\ last = Idle
  /\ Step("read", path, JsNull, <<>>, readOutcome(prefix, store, path), written)

readMulti(spec) ==
  /\ last = Idle
  /\ Step("readMulti", spec, JsNull, <<>>, readMultiOutcome(prefix, store, spec), written)

write(path, value) ==
  /\ last = Idle
  /\ Step("write", path, value, <<>>, writeOutcome(prefix, store, path, value),
          Put(written, path, value))

writeMulti(basePath, values) ==
  /\ last = Idle
  /\ Step("writeMulti", basePath, JsNull, values,
          writeMultiOutcome(prefix, store, basePath, values),
          PutAll(written, basePath, values))

rm(path) ==
  /\ last = Idle
  /\ Step("rm", path, JsNull, <<>>, rmOutcome(prefix, store, path),
          Drop(written, {path}))

rmAllForce ==
  /\ last = Idle
  /\ Step("rmAllForce", <<>>, JsNull, <<>>, rmAllForceOutcome(prefix, store),
          Drop(written, DOMAIN written))

rmMulti(paths) ==
  /\ last = Idle
  /\ Step("rmMulti", <<>>, JsNull, paths, rmMultiOutcome(prefix, store, paths),
          Drop(written, Range(paths)))

\* the awaiting caller continues after the promise settled
resume ==
  /\ last # Idle
  /\ last' = Idle
  /\ before' = store
  /\ UNCHANGED <<prefix, store, written>>

Next ==
  \/ \E spec \in Specs : ls(spec)
  \/ \E path \in Paths : read(path)
  \/ \E spec \in Specs \ {Undefined} : readMulti(spec)
  \/ \E path \in Paths, value \in Values : write(path, value)
  \/ \E basePath \in BasePaths, values \in Entries : writeMulti(basePath, values)
  \/ \E path \in Specs \ {Undefined} : rm(path)
  \/ rmAllForce
  \/ \E paths \in PathLists : rmMulti(paths)
  \/ resume

Spec == Init /\ [][Next]_vars

(***************************************************************************)
(* What the properties below speak about.                                  *)
(***************************************************************************)
\* the key carries the instance's prefix
HasPrefix(key) == Len(key) >= Len(prefix) /\ \A i \in 1..Len(prefix) : key[i] = prefix[i]

\* the path of a key of the namespace
PathOfKey(key) == [i \in 1..(Len(key) - Len(prefix)) |-> key[i + Len(prefix)]]

\* the paths the instance holds in a store
StoredPaths(st) == {PathOfKey(key) : key \in {k \in DOMAIN st : HasPrefix(k)}}

\* the last call left the key as it was: absent, or present with the same text
SameAt(key) ==
  /\ key \in DOMAIN store <=> key \in DOMAIN before
  /\ key \in DOMAIN store => store[key] = before[key]

\* the prefix holds no character that means something in a regular expression
PlainPrefix == \A i \in 1..Len(prefix) : prefix[i] \notin RegexSpecialChars

\* the spec ends in an escape marker that escapes nothing
RECURSIVE DanglingEscape(_, _)
DanglingEscape(spec, i) ==
  IF i > Len(spec) THEN FALSE
  ELSE IF spec[i] = "\\" THEN i + 1 > Len(spec) \/ DanglingEscape(spec, i + 2)
  ELSE DanglingEscape(spec, i + 1)

\* the glob a spec denotes: wildcards and literal characters, an escaped
\* character being the literal character
RECURSIVE GlobTokens(_, _)
GlobTokens(spec, i) ==
  IF i > Len(spec) THEN <<>>
  ELSE IF spec[i] = "\\" /\ i + 1 <= Len(spec)
  THEN <<[wild |-> FALSE, c |-> spec[i + 1]]>> \o GlobTokens(spec, i + 2)
  ELSE <<[wild |-> spec[i] = "*", c |-> spec[i]]>> \o GlobTokens(spec, i + 1)

RECURSIVE GlobMatch(_, _, _, _)
GlobMatch(tokens, i, path, j) ==
  IF i > Len(tokens) THEN j > Len(path)
  ELSE IF tokens[i].wild
  THEN GlobMatch(tokens, i + 1, path, j)
       \/ (j <= Len(path) /\ GlobMatch(tokens, i, path, j + 1))
  ELSE j <= Len(path) /\ path[j] = tokens[i].c /\ GlobMatch(tokens, i + 1, path, j + 1)

\* the path matches the spec as a whole-path glob
Matches(spec, path) == GlobMatch(GlobTokens(spec, 1), 1, path, 1)

HasWildcard(spec) ==
  \E i \in 1..Len(GlobTokens(spec, 1)) : GlobTokens(spec, 1)[i].wild

\* an ls result lists exactly the paths of the set, each once
ListsExactly(ret, paths) == Range(ret) = paths /\ Len(ret) = Cardinality(paths)

\* the value survives JSON: no NaN anywhere in it
RECURSIVE JsonValue(_)
JsonValue(x) ==
  CASE x.t = "nan" -> FALSE
    [] x.t = "arr" -> \A i \in 1..Len(x.v) : JsonValue(x.v[i])
    [] x.t = "obj" -> \A i \in 1..Len(x.v) : JsonValue(x.v[i].x)
    [] OTHER -> TRUE

\* basePath + subPath, an absent basePath adding nothing
Combined(basePath, subPath) == (IF basePath = Undefined THEN <<>> ELSE basePath) \o subPath

(***************************************************************************)
(* C1.  Prefix isolation: whatever write, writeMulti, rm and rmAllForce    *)
(* do, every key they add to the store starts with the instance's prefix,  *)
(* no key lacking the prefix is added, changed or removed, and after       *)
(* rmAllForce no key with the prefix remains.                              *)
(***************************************************************************)
PrefixIsolation ==
  last.op \in {"write", "writeMulti", "rm", "rmAllForce"} =>
    /\ \A key \in DOMAIN store \ DOMAIN before : HasPrefix(key)
    /\ \A key \in DOMAIN store \cup DOMAIN before : ~HasPrefix(key) => SameAt(key)
    /\ last.op = "rmAllForce" => \A key \in DOMAIN store : ~HasPrefix(key)

\* rmAllForce removed keys of the namespace from a store that holds other keys too
PrefixIsolationWitness ==
  /\ last.op = "rmAllForce"
  /\ \E key \in DOMAIN before : HasPrefix(key)
  /\ \E key \in DOMAIN store : ~HasPrefix(key)

(***************************************************************************)
(* C2.  rm(spec) with a spec holding an unescaped wildcard removes every   *)
(* stored path of the instance that matches the spec and leaves every      *)
(* other key as it was.                                                    *)
(***************************************************************************)
RmRemovesMatching ==
  (last.op = "rm" /\ last.arg # <<>> /\ ~DanglingEscape(last.arg, 1)
     /\ HasWildcard(last.arg)) =>
    /\ ~last.err
    /\ DOMAIN store \subseteq DOMAIN before
    /\ \A key \in DOMAIN before :
         IF HasPrefix(key) /\ Matches(last.arg, PathOfKey(key))
         THEN key \notin DOMAIN store
         ELSE SameAt(key)

(***************************************************************************)
(* C3.  Round trip, as claimed: read(p) returns the value most recently    *)
(* written to p and not removed since, whatever the value; and null for a  *)
(* path never written or already removed.                                  *)
(***************************************************************************)
RoundTripAnyValue ==
  (last.op = "read" /\ last.arg # <<>>) =>
    /\ ~last.err
    /\ last.ret = IF last.arg \in DOMAIN written THEN written[last.arg] ELSE JsNull

(***************************************************************************)
(* C3, amended.  read(p) returns the value most recently written to p and  *)
(* not removed since when JSON can represent that value (a NaN is read     *)
(* back as null); and null for a path never written or already removed.    *)
(***************************************************************************)
RoundTripJsonValue ==
  (last.op = "read" /\ last.arg # <<>>) =>
    /\ ~last.err
    /\ (last.arg \in DOMAIN written /\ JsonValue(written[last.arg]))
         => last.ret = written[last.arg]
    /\ last.arg \notin DOMAIN written => last.ret = JsNull

\* a read returned an object written earlier, other calls having come between
RoundTripWitness ==
  /\ last.op = "read"
  /\ last.arg \in DOMAIN written
  /\ last.ret = Hello
  /\ Cardinality(DOMAIN written) > 1

(***************************************************************************)
(* C4.  read, write and rm of the empty path, and writeMulti with any      *)
(* entry whose combined path is empty, throw before any store call and     *)
(* leave the store unchanged, also when other entries are valid.           *)
(***************************************************************************)
EmptyPathRejected ==
  /\ (last.op \in {"read", "write", "rm"} /\ last.arg = <<>>) =>
       (last.err /\ last.calls = <<>> /\ store = before)
  /\ (last.op = "writeMulti"
        /\ \E i \in 1..Len(last.list) : Combined(last.arg, last.list[i].path) = <<>>) =>
       (last.err /\ last.calls = <<>> /\ store = before)

\* a writeMulti with a valid entry before an entry with an empty combined path
EmptyPathRejectedWitness ==
  /\ last.op = "writeMulti"
  /\ Len(last.list) = 2
  /\ Combined(last.arg, last.list[1].path) # <<>>
  /\ Combined(last.arg, last.list[2].path) = <<>>
  /\ KeyOf(prefix, Combined(last.arg, last.list[1].path)) \notin DOMAIN before

(***************************************************************************)
(* C5.  rmMulti(paths) removes exactly the listed paths of the instance:   *)
(* none of their keys is in the store afterwards, every other key is as it *)
(* was, and rmMulti([]) makes no store call.                               *)
(***************************************************************************)
RmMultiRemovesListed ==
  last.op = "rmMulti" =>
    /\ ~last.err
    /\ \A i \in 1..Len(last.list) : prefix \o last.list[i] \notin DOMAIN store
    /\ \A key \in DOMAIN store \cup DOMAIN before :
         (\A i \in 1..Len(last.list) : key # prefix \o last.list[i]) => SameAt(key)
    /\ last.list = <<>> => (last.calls = <<>> /\ store = before)

\* rmMulti removed two stored paths and left other keys behind
RmMultiWitness ==
  /\ last.op = "rmMulti"
  /\ Len(last.list) = 2
  /\ last.list[1] # last.list[2]
  /\ \A i \in 1..2 : prefix \o last.list[i] \in DOMAIN before
  /\ store # <<>>

(***************************************************************************)
(* C6.  ls(), ls("") and ls("*") succeed and return exactly the            *)
(* de-prefixed paths of the store keys that start with the prefix,         *)
(* whatever characters the prefix holds.                                   *)
(***************************************************************************)
LsListsEverything ==
  (last.op = "ls" /\ last.arg \in {Undefined, <<>>, <<"*">>}) =>
    /\ ~last.err
    /\ ListsExactly(last.ret, StoredPaths(store))

\* the same for a prefix without regular-expression characters
LsListsEverythingPlainPrefix == PlainPrefix => LsListsEverything

(***************************************************************************)
(* C7.  For a spec without escape marker that begins with a literal        *)
(* character, ls(spec) returns exactly the stored paths that match the     *)
(* spec as a whole-path glob.                                              *)
(***************************************************************************)
LsGlobSemantics ==
  (last.op = "ls" /\ last.arg # Undefined /\ last.arg # <<>>
     /\ "\\" \notin Range(last.arg) /\ last.arg[1] # "*") =>
    /\ ~last.err
    /\ ListsExactly(last.ret, {p \in StoredPaths(store) : Matches(last.arg, p)})

\* the same for a prefix without regular-expression characters
LsGlobSemanticsPlainPrefix == PlainPrefix => LsGlobSemantics

(***************************************************************************)
(* C8.  An escaped wildcard is a literal also as the last token: ls of a   *)
(* spec ending in an escaped wildcard returns only paths whose last        *)
(* character is a literal asterisk.  Stated for a prefix without           *)
(* regular-expression characters.                                          *)
(***************************************************************************)
EscapedWildcardIsLiteral ==
  (PlainPrefix /\ last.op = "ls" /\ last.arg # Undefined
     /\ ~DanglingEscape(last.arg, 1) /\ GlobTokens(last.arg, 1) # <<>>
     /\ LET tokens == GlobTokens(last.arg, 1)
        IN  ~tokens[Len(tokens)].wild /\ tokens[Len(tokens)].c = "*") =>
    /\ ~last.err
    /\ \A i \in 1..Len(last.ret) :
         last.ret[i] # <<>> /\ last.ret[i][Len(last.ret[i])] = "*"

(***************************************************************************)
(* C9.  A leading wildcard matches any run of characters: ls and readMulti *)
(* of "*" followed by a literal string s return every stored path that     *)
(* ends with s.  Stated for a prefix without regular-expression            *)
(* characters.                                                             *)
(***************************************************************************)
LeadingWildcard ==
  (PlainPrefix /\ last.op \in {"ls", "readMulti"} /\ last.arg # Undefined
     /\ Len(last.arg) >= 2 /\ last.arg[1] = "*"
     /\ \A i \in 2..Len(last.arg) : last.arg[i] \notin {"*", "\\"}) =>
    /\ ~last.err
    /\ \A p \in StoredPaths(store) :
         endsWith(p, slice(last.arg, 1)) =>
           \E i \in 1..Len(last.ret) :
             p = IF last.op = "ls" THEN last.ret[i] ELSE last.ret[i].path

(***************************************************************************)
(* C10.  writeMulti(basePath, entries): with an empty list no store call   *)
(* and no change; with entries whose combined paths are non-empty exactly  *)
(* one multiSet that sets every entry's key to its encoded value and       *)
(* changes no other key, so that a following readMulti(basePath + "*")     *)
(* returns each written entry.  Stated for a prefix without                *)
(* regular-expression characters.                                          *)
(***************************************************************************)
\* entry i is not overwritten by a later entry of the same list
Stands(i) ==
  \A j \in (i + 1)..Len(last.list) : last.list[j].path # last.list[i].path

WriteMultiBatch ==
  (PlainPrefix /\ last.op = "writeMulti") =>
    IF last.list = <<>> THEN ~last.err /\ last.calls = <<>> /\ store = before
    ELSE (\A i \in 1..Len(last.list) : Combined(last.arg, last.list[i].path) # <<>>) =>
      LET key(i) == prefix \o Combined(last.arg, last.list[i].path)
          text(i) == JSONstringify(last.list[i].value)
          after == readMultiOutcome(prefix, store, Combined(last.arg, <<"*">>))
      IN  /\ ~last.err
          /\ last.calls =
               <<Call("multiSet", [i \in 1..Len(last.list) |-> <<key(i), text(i)>>])>>
          /\ \A i \in 1..Len(last.list) : Stands(i) => getItem(store, key(i)) = text(i)
          /\ \A k \in DOMAIN store \cup DOMAIN before :
               (\A i \in 1..Len(last.list) : k # key(i)) => SameAt(k)
          /\ ~after.err
          /\ \A i \in 1..Len(last.list) :
               Stands(i) =>
                 \E j \in 1..Len(after.ret) :
                   after.ret[j] = PathValue(Combined(last.arg, last.list[i].path),
                                            last.list[i].value)

\* the same for a basePath that does not begin with a wildcard
WriteMultiBatchLiteralBase ==
  (last.op = "writeMulti" /\ last.arg # <<>> /\ last.arg[1] = "*") \/ WriteMultiBatch

====
